---- MODULE Spec2Model ----
(***************************************************************************)
(* A model of the urlshortener provider/dispatch layer.                    *)
(*                                                                         *)
(*   src/src/providers.rs  ProviderError, PROVIDERS, the parse_* macros,   *)
(*                         parse                                           *)
(*   src/src/client.rs     UrlShortener::generate, ::try_generate          *)
(*   src/src/request.rs    Request::execute                                *)
(*                                                                         *)
(* Text is modelled as a sequence of one-character strings, so that the    *)
(* substring searches of the parsers are computed character by character.  *)
(***************************************************************************)
EXTENDS Integers, Sequences, FiniteSets, TLC

VARIABLES
    pc,             \* "idle" | "loop" (inside try_generate's for) | "done"
    mode,           \* the public call in progress: "none" | "generate" | "try_generate"
    long_url,       \* the `url` argument of the public call
    use_providers,  \* try_generate's Option<&[Provider]> argument
    providers,      \* try_generate's local `providers` slice
    idx,            \* number of elements the for loop has consumed
    sent,           \* the HTTP requests executed during the current call
    resp,           \* what the executor answered to the last request
    gen_provider,   \* the `provider` argument of the last call of generate
    gen_res,        \* the result of the last call of generate (`res` in try_generate)
    ret,            \* the value the public call returned
    logged,         \* the log records emitted during the current call
    fnPhase,        \* pure-function harness: "input" | "done"
    fnProvider,     \* pure-function harness: the provider argument
    fnBody,         \* pure-function harness: the response text argument
    fnResult,       \* pure-function harness: the value parse returned
    fnUrl,          \* pure-function harness: the long URL argument
    fnRequest,      \* pure-function harness: what request returned
    fnName          \* pure-function harness: what to_name returned

dispatchVars == <<pc, mode, long_url, use_providers, providers, idx, sent, resp, gen_provider,
                  gen_res, ret, logged>>
fnVars == <<fnPhase, fnProvider, fnBody, fnResult, fnUrl, fnRequest, fnName>>
vars == <<pc, mode, long_url, use_providers, providers, idx, sent, resp, gen_provider,
          gen_res, ret, logged, fnPhase, fnProvider, fnBody, fnResult, fnUrl, fnRequest, fnName>>

(***************************************************************************)
(* Bounds of the model.                                                    *)
(***************************************************************************)
\* longest explicit provider list handed to try_generate
MaxList == 2
\* number of pieces a response text of the parser harness is built from
MaxPieces == 3
\* number of characters of a long URL handed to request by the harness
MaxUrlLen == 2

(***************************************************************************)
(* Option and Result values.                                               *)
(***************************************************************************)
None == [some |-> FALSE, v |-> <<>>]
Some(x) == [some |-> TRUE, v |-> x]

Ok(s) == [ok |-> TRUE, val |-> s, kind |-> "none"]
Err(k) == [ok |-> FALSE, val |-> <<>>, kind |-> k]

\* Option::unwrap_or
unwrap_or(o, d) == IF o.some THEN o.v ELSE d

(***************************************************************************)
(* str::split, Iterator::nth / next, str::replace on character sequences.  *)
(***************************************************************************)
Drop(s, n) == SubSeq(s, n + 1, Len(s))

\* the first position at which pat occurs in s, 0 when it does not occur
Find(s, pat) ==
    LET hits == { k \in 1..(Len(s) - Len(pat) + 1) : SubSeq(s, k, k + Len(pat) - 1) = pat }
    IN  IF hits = {} THEN 0 ELSE CHOOSE k \in hits : \A j \in hits : k <= j

Contains(s, pat) == Find(s, pat) # 0

RECURSIVE split(_, _)
\* str::split(pat) for a non-empty pattern: the pieces between the
\* non-overlapping occurrences of pat, always at least one piece
split(s, pat) ==
    LET k == Find(s, pat)
    IN  IF k = 0 THEN <<s>>
        ELSE <<SubSeq(s, 1, k - 1)>> \o split(Drop(s, k + Len(pat) - 1), pat)

\* Iterator::nth(n), counting from 0
nth(pieces, n) == IF Len(pieces) > n THEN Some(pieces[n + 1]) ELSE None

\* Iterator::next on a fresh iterator
next(pieces) == nth(pieces, 0)

RECURSIVE Join(_)
Join(pieces) == IF pieces = <<>> THEN <<>> ELSE Head(pieces) \o Join(Tail(pieces))

\* str::replace(pat, "")
remove_all(s, pat) == Join(split(s, pat))

(***************************************************************************)
(* Literals of providers.rs.                                               *)
(***************************************************************************)
TAG_hecsu == <<"s", "h", "o", "r", "t">>
TAG_psbeco == <<"S", "h", "o", "r", "t", "U", "r", "l">>
TAG_tnyim == <<"s", "h", "o", "r", "t", "u", "r", "l">>
TINYURL_OPEN == <<"d", "a", "t", "a", "-", "c", "l", "i", "p", "b", "o", "a", "r", "d", "-",
                  "t", "e", "x", "t", "=", "\"">>
TINYURL_CLOSE == <<"\"", ">">>
KEY_bambz == <<"u", "r", "l">>
KEY_bmeo == <<"s", "h", "o", "r", "t">>
KEY_fifocc == <<"s", "h", "o", "r", "t", "n", "e", "r">>
KEY_googl == <<"i", "d">>
KEY_hmmrs == <<"s", "h", "o", "r", "t", "U", "r", "l">>
KEY_kutt == <<"s", "h", "o", "r", "t", "U", "r", "l">>
KEY_sirbz == <<"s", "h", "o", "r", "t", "_", "l", "i", "n", "k">>
KEY_tinyph == <<"h", "a", "s", "h">>
KEY_biturl == <<"s", "h", "o", "r", "t">>
PREFIX_fifocc == <<"h", "t", "t", "p", ":", "/", "/", "f", "i", "f", "o", ".", "c", "c", "/">>
PREFIX_tinyph == <<"h", "t", "t", "p", ":", "/", "/", "t", "i", "n", "y", ".", "p", "h", "/">>

(***************************************************************************)
(* Provider values.  The unit variants carry only their tag.               *)
(***************************************************************************)
P(t) == [tag |-> t]
BitLy(token) == [tag |-> "BitLy", token |-> token]
GooGl(api_key) == [tag |-> "GooGl", api_key |-> api_key]
Kutt(api_key, host) == [tag |-> "Kutt", api_key |-> api_key, host |-> host]

AuthTags == {"BitLy", "GooGl", "Kutt"}

PROVIDERS_WithAuth ==
    << P("IsGd"), P("VGd"), P("BamBz"), P("TinyPh"), P("FifoCc"), P("SCoop"), P("Bmeo"),
       P("UrlShortenerIo"), P("HmmRs"), P("BitUrl"), P("TnyIm"), P("SirBz"), P("Rlu"),
       P("HecSu"), P("Abv8"), P("TinyUrl"), P("PsbeCo"), GooGl(<<"K">>) >>

\* pub const PROVIDERS
PROVIDERS ==
    << P("IsGd"), P("VGd"), P("BamBz"), P("TinyPh"), P("FifoCc"), P("SCoop"), P("Bmeo"),
       P("UrlShortenerIo"), P("HmmRs"), P("BitUrl"), P("TnyIm"), P("SirBz"), P("Rlu"),
       P("HecSu"), P("Abv8"), P("TinyUrl"), P("PsbeCo"), P("NowLinks") >>

\* the last position at which pat occurs in s, 0 when it does not occur
rfind(s, pat) ==
    LET hits == { k \in 1..(Len(s) - Len(pat) + 1) : SubSeq(s, k, k + Len(pat) - 1) = pat }
    IN  IF hits = {} THEN 0 ELSE CHOOSE k \in hits : \A j \in hits : k >= j

\* str::rsplit(pat).next().unwrap(): the text after the last occurrence of
\* pat, all of s when pat does not occur
rsplit_next(s, pat) ==
    IF rfind(s, pat) = 0 THEN s ELSE Drop(s, rfind(s, pat) + Len(pat) - 1)

to_name_FirstSegment(provider) ==
    CASE provider.tag = "Abv8" -> <<"a", "b", "v", "8", ".", "m", "e">>
      [] provider.tag = "BamBz" -> <<"b", "a", "m", ".", "b", "z">>
      [] provider.tag = "BitLy" -> <<"b", "i", "t", "l", "y", ".", "c", "o", "m">>
      [] provider.tag = "BitUrl" -> <<"b", "i", "t", "u", "r", "l", ".", "t", "o", "p">>
      [] provider.tag = "Bmeo" -> <<"b", "m", "e", "o", ".", "o", "r", "g">>
      [] provider.tag = "FifoCc" -> <<"f", "i", "f", "o", ".", "c", "c">>
      [] provider.tag = "GooGl" -> <<"g", "o", "o", ".", "g", "l">>
      [] provider.tag = "HmmRs" -> <<"h", "m", "m", ".", "r", "s">>
      [] provider.tag = "HecSu" -> <<"h", "e", "c", ".", "s", "u">>
      [] provider.tag = "IsGd" -> <<"i", "s", ".", "g", "d">>
      [] provider.tag = "NowLinks" -> <<"n", "o", "w", "l", "i", "n", "k", "s", ".", "n", "e", "t">>
      [] provider.tag = "PhxCoIn" -> <<"p", "h", "x", ".", "c", "o", ".", "i", "n">>
      [] provider.tag = "PsbeCo" -> <<"p", "s", "b", "e", ".", "c", "o">>
      [] provider.tag = "SCoop" -> <<"s", ".", "c", "o", "o", "p">>
      [] provider.tag = "SirBz" -> <<"s", "i", "r", "b", "z", ".", "c", "o", "m">>
      [] provider.tag = "Rlu" -> <<"r", "l", "u", ".", "r", "u">>
      [] provider.tag = "TinyUrl" -> <<"t", "i", "n", "y", "u", "r", "l", ".", "c", "o", "m">>
      [] provider.tag = "TinyPh" -> <<"t", "i", "n", "y", ".", "p", "h">>
      [] provider.tag = "TnyIm" -> <<"t", "n", "y", ".", "i", "m">>
      [] provider.tag = "UrlShortenerIo" -> <<"u", "r", "l", "-", "s", "h", "o", "r", "t", "e", "n", "e", "r", ".", "i", "o">>
      [] provider.tag = "VGd" -> <<"v", ".", "g", "d">>
      [] provider.tag = "Kutt" ->
            IF provider.host.some
            THEN next(split(provider.host.v, <<"/", "/">>)).v
            ELSE <<"k", "u", "t", "t", ".", "i", "t">>

\* Provider::to_name
to_name(provider) ==
    CASE provider.tag = "Abv8" -> <<"a", "b", "v", "8", ".", "m", "e">>
      [] provider.tag = "BamBz" -> <<"b", "a", "m", ".", "b", "z">>
      [] provider.tag = "BitLy" -> <<"b", "i", "t", "l", "y", ".", "c", "o", "m">>
      [] provider.tag = "BitUrl" -> <<"b", "i", "t", "u", "r", "l", ".", "t", "o", "p">>
      [] provider.tag = "Bmeo" -> <<"b", "m", "e", "o", ".", "o", "r", "g">>
      [] provider.tag = "FifoCc" -> <<"f", "i", "f", "o", ".", "c", "c">>
      [] provider.tag = "GooGl" -> <<"g", "o", "o", ".", "g", "l">>
      [] provider.tag = "HmmRs" -> <<"h", "m", "m", ".", "r", "s">>
      [] provider.tag = "HecSu" -> <<"h", "e", "c", ".", "s", "u">>
      [] provider.tag = "IsGd" -> <<"i", "s", ".", "g", "d">>
      [] provider.tag = "NowLinks" -> <<"n", "o", "w", "l", "i", "n", "k", "s", ".", "n", "e", "t">>
      [] provider.tag = "PhxCoIn" -> <<"p", "h", "x", ".", "c", "o", ".", "i", "n">>
      [] provider.tag = "PsbeCo" -> <<"p", "s", "b", "e", ".", "c", "o">>
      [] provider.tag = "SCoop" -> <<"s", ".", "c", "o", "o", "p">>
      [] provider.tag = "SirBz" -> <<"s", "i", "r", "b", "z", ".", "c", "o", "m">>
      [] provider.tag = "Rlu" -> <<"r", "l", "u", ".", "r", "u">>
      [] provider.tag = "TinyUrl" -> <<"t", "i", "n", "y", "u", "r", "l", ".", "c", "o", "m">>
      [] provider.tag = "TinyPh" -> <<"t", "i", "n", "y", ".", "p", "h">>
      [] provider.tag = "TnyIm" -> <<"t", "n", "y", ".", "i", "m">>
      [] provider.tag = "UrlShortenerIo" -> <<"u", "r", "l", "-", "s", "h", "o", "r", "t", "e", "n", "e", "r", ".", "i", "o">>
      [] provider.tag = "VGd" -> <<"v", ".", "g", "d">>
      [] provider.tag = "Kutt" ->
            IF provider.host.some
            THEN rsplit_next(provider.host.v, <<"/", "/">>)
            ELSE <<"k", "u", "t", "t", ".", "i", "t">>

(***************************************************************************)
(* The response parsers.                                                   *)
(***************************************************************************)
\* macro parse_xml_tag!:  res.split("<tag>").nth(1).unwrap_or("")
\*                           .split("</tag>").next().map(String::from)
parse_xml_tag(res, tag) ==
    LET open == <<"<">> \o tag \o <<">">>
        close == <<"<", "/">> \o tag \o <<">">>
        after == unwrap_or(nth(split(res, open), 1), <<>>)
    IN  next(split(after, close))

parse_json_tag_KeepBackslash(res, tag, prefix) ==
    LET key == <<"\"">> \o tag \o <<"\"">>
        after == unwrap_or(nth(split(res, key), 1), <<>>)
        segment == unwrap_or(next(split(after, <<",">>)), <<>>)
        value == nth(split(segment, <<"\"">>), 1)
    IN  IF value.some THEN Some(prefix \o value.v) ELSE None

\* macro parse_json_tag!:  res.split("\"tag\"").nth(1).unwrap_or("")
\*                            .split(",").next().unwrap_or("")
\*                            .split("\"").nth(1)
\*                            .map(|v| format!("{}{}", prefix, v.replace("\\", "")))
parse_json_tag(res, tag, prefix) ==
    LET key == <<"\"">> \o tag \o <<"\"">>
        after == unwrap_or(nth(split(res, key), 1), <<>>)
        segment == unwrap_or(next(split(after, <<",">>)), <<>>)
        value == nth(split(segment, <<"\"">>), 1)
    IN  IF value.some THEN Some(prefix \o remove_all(value.v, <<"\\">>)) ELSE None

\* macro parse_noop!
parse_noop(res) == Some(res)

\* fn tinyurl_parse
tinyurl_parse(res) ==
    LET after == unwrap_or(nth(split(res, TINYURL_OPEN), 1), <<>>)
    IN  next(split(after, TINYURL_CLOSE))

\* Option::ok_or(ProviderError::Deserialize)
ok_or_Deserialize(o) == IF o.some THEN Ok(o.v) ELSE Err("Deserialize")

\* pub fn parse
parse(res, provider) ==
    ok_or_Deserialize(
        CASE provider.tag = "Abv8" -> parse_noop(res)
          [] provider.tag = "BamBz" -> parse_json_tag(res, KEY_bambz, <<>>)
          [] provider.tag = "BitLy" -> parse_noop(res)
          [] provider.tag = "BitUrl" -> parse_json_tag(res, KEY_biturl, <<>>)
          [] provider.tag = "Bmeo" -> parse_json_tag(res, KEY_bmeo, <<>>)
          [] provider.tag = "FifoCc" -> parse_json_tag(res, KEY_fifocc, PREFIX_fifocc)
          [] provider.tag = "GooGl" -> parse_json_tag(res, KEY_googl, <<>>)
          [] provider.tag = "HmmRs" -> parse_json_tag(res, KEY_hmmrs, <<>>)
          [] provider.tag = "HecSu" -> parse_xml_tag(res, TAG_hecsu)
          [] provider.tag = "IsGd" -> parse_noop(res)
          [] provider.tag = "Kutt" -> parse_json_tag(res, KEY_kutt, <<>>)
          [] provider.tag = "NowLinks" -> parse_noop(res)
          [] provider.tag = "PhxCoIn" -> parse_noop(res)
          [] provider.tag = "PsbeCo" -> parse_xml_tag(res, TAG_psbeco)
          [] provider.tag = "SCoop" -> parse_noop(res)
          [] provider.tag = "SirBz" -> parse_json_tag(res, KEY_sirbz, <<>>)
          [] provider.tag = "Rlu" -> parse_noop(res)
          [] provider.tag = "TinyUrl" -> tinyurl_parse(res)
          [] provider.tag = "TinyPh" -> parse_json_tag(res, KEY_tinyph, PREFIX_tinyph)
          [] provider.tag = "TnyIm" -> parse_xml_tag(res, TAG_tnyim)
          [] provider.tag = "UrlShortenerIo" -> parse_noop(res)
          [] provider.tag = "VGd" -> parse_noop(res))

(***************************************************************************)
(* The request builders.                                                   *)
(***************************************************************************)
\* the bytes form_urlencoded::byte_serialize leaves as they are
Unreserved ==
    { "a", "b", "c", "d", "e", "f", "g", "h", "i", "j", "k", "l", "m", "n", "o", "p", "q",
      "r", "s", "t", "u", "v", "w", "x", "y", "z", "A", "B", "C", "D", "E", "F", "G", "H",
      "I", "J", "K", "L", "M", "N", "O", "P", "Q", "R", "S", "T", "U", "V", "W", "X", "Y",
      "Z", "0", "1", "2", "3", "4", "5", "6", "7", "8", "9", "*", "-", ".", "_" }

\* the two upper-case hexadecimal digits of a byte
HexOf(c) ==
    CASE c = "\n" -> <<"0", "A">>
      [] c = "\"" -> <<"2", "2">>
      [] c = "#" -> <<"2", "3">>
      [] c = "%" -> <<"2", "5">>
      [] c = "&" -> <<"2", "6">>
      [] c = "+" -> <<"2", "B">>
      [] c = "," -> <<"2", "C">>
      [] c = "/" -> <<"2", "F">>
      [] c = ":" -> <<"3", "A">>
      [] c = "=" -> <<"3", "D">>
      [] c = "?" -> <<"3", "F">>
      [] c = "\\" -> <<"5", "C">>
      [] c = "{" -> <<"7", "B">>
      [] c = "}" -> <<"7", "D">>

byte_serialize_Identity(s) == s

RECURSIVE byte_serialize(_)
\* form_urlencoded::byte_serialize(..).collect::<String>()
byte_serialize(s) ==
    IF s = <<>> THEN <<>>
    ELSE (IF Head(s) \in Unreserved THEN <<Head(s)>>
          ELSE IF Head(s) = " " THEN <<"+">>
          ELSE <<"%">> \o HexOf(Head(s)))
         \o byte_serialize(Tail(s))

\* macro request!, first arm: the long URL, encoded, inside the URL
request_get(url, method, req_url_head, req_url_tail) ==
    [ url |-> req_url_head \o byte_serialize(url) \o req_url_tail,
      body |-> None,
      content_type |-> None,
      user_agent |-> None,
      headers |-> None,
      method |-> method ]

\* macro request!, second arm (B): a body and no content type
request_body_NoContentType(url, method, req_url, body_head, content_type) ==
    [ url |-> req_url,
      body |-> Some(body_head \o url),
      content_type |-> None,
      user_agent |-> None,
      headers |-> None,
      method |-> method ]

\* macro request!, third arm: the long URL, as it is, inside the body
request_body(url, method, req_url, body_head, content_type) ==
    [ url |-> req_url,
      body |-> Some(body_head \o url),
      content_type |-> Some(content_type),
      user_agent |-> None,
      headers |-> None,
      method |-> method ]

\* const FAKE_USER_AGENT
FAKE_USER_AGENT ==
    <<"M", "o", "z", "i", "l", "l", "a", "/", "5", ".", "0", " ", "(",
                      "X", "1", "1", ";", " ", "U", "b", "u", "n", "t", "u", ";", " ",
                      "L", "i", "n", "u", "x", " ", "x", "8", "6", "_", "6", "4", ";",
                      " ", "r", "v", ":", "5", "8", ".", "0", ")", " ", "G", "e", "c",
                      "k", "o", "/", "2", "0", "1", "0", "0", "1", "0", "1", " ", "F",
                      "i", "r", "e", "f", "o", "x", "/", "5", "8", ".", "0">>

abv8_req(url) ==
    request_get(url, "Get",
        <<"h", "t", "t", "p", ":", "/", "/", "a", "b", "v", "8", ".", "m", "e", "/", "?",
          "u", "r", "l", "=">>,
        <<>>)

bmeo_req(url) ==
    request_get(url, "Get",
        <<"h", "t", "t", "p", ":", "/", "/", "b", "m", "e", "o", ".", "o", "r", "g", "/",
          "a", "p", "i", ".", "p", "h", "p", "?", "u", "r", "l", "=">>,
        <<>>)

fifocc_req(url) ==
    request_get(url, "Get",
        <<"h", "t", "t", "p", "s", ":", "/", "/", "f", "i", "f", "o", ".", "c", "c", "/",
          "a", "p", "i", "/", "v", "2", "?", "u", "r", "l", "=">>,
        <<>>)

hecsu_req(url) ==
    request_get(url, "Get",
        <<"h", "t", "t", "p", "s", ":", "/", "/", "h", "e", "c", ".", "s", "u", "/", "a",
          "p", "i", "?", "u", "r", "l", "=">>,
        <<"&", "m", "e", "t", "h", "o", "d", "=", "x", "m", "l">>)

isgd_req(url) ==
    request_get(url, "Get",
        <<"h", "t", "t", "p", "s", ":", "/", "/", "i", "s", ".", "g", "d", "/", "c", "r",
          "e", "a", "t", "e", ".", "p", "h", "p", "?", "f", "o", "r", "m", "a", "t", "=",
          "s", "i", "m", "p", "l", "e", "&", "u", "r", "l", "=">>,
        <<>>)

nowlinks_req(url) ==
    request_get(url, "Get",
        <<"h", "t", "t", "p", ":", "/", "/", "n", "o", "w", "l", "i", "n", "k", "s", ".",
          "n", "e", "t", "/", "a", "p", "i", "?", "u", "r", "l", "=">>,
        <<>>)

phxcoin_req(url) ==
    request_get(url, "Get",
        <<"h", "t", "t", "p", ":", "/", "/", "p", "h", "x", ".", "c", "o", ".", "i", "n",
          "/", "s", "h", "r", "i", "n", "k", ".", "a", "s", "p", "?", "u", "r", "l", "=">>,
        <<>>)

psbeco_req(url) ==
    request_get(url, "Get",
        <<"h", "t", "t", "p", ":", "/", "/", "p", "s", "b", "e", ".", "c", "o", "/", "A",
          "P", "I", ".", "a", "s", "m", "x", "/", "C", "r", "e", "a", "t", "e", "U", "r",
          "l", "?", "r", "e", "a", "l", "_", "u", "r", "l", "=">>,
        <<>>)

scoop_req(url) ==
    request_get(url, "Get",
        <<"h", "t", "t", "p", ":", "/", "/", "s", ".", "c", "o", "o", "p", "/", "d", "e",
          "v", "a", "p", "i", ".", "p", "h", "p", "?", "a", "c", "t", "i", "o", "n", "=",
          "s", "h", "o", "r", "t", "u", "r", "l", "&", "u", "r", "l", "=">>,
        <<"&", "f", "o", "r", "m", "a", "t", "=", "R", "E", "T", "U", "R", "N">>)

rlu_req(url) ==
    request_get(url, "Get",
        <<"h", "t", "t", "p", ":", "/", "/", "r", "l", "u", ".", "r", "u", "/", "i", "n",
          "d", "e", "x", ".", "s", "e", "m", "a", "?", "a", "=", "a", "p", "i", "&", "l",
          "i", "n", "k", "=">>,
        <<>>)

tinyurl_req(url) ==
    request_get(url, "Get",
        <<"h", "t", "t", "p", ":", "/", "/", "t", "i", "n", "y", "u", "r", "l", ".", "c",
          "o", "m", "/", "c", "r", "e", "a", "t", "e", ".", "p", "h", "p", "?", "u", "r",
          "l", "=">>,
        <<>>)

tnyim_req(url) ==
    request_get(url, "Get",
        <<"h", "t", "t", "p", ":", "/", "/", "t", "n", "y", ".", "i", "m", "/", "y", "o",
          "u", "r", "l", "s", "-", "a", "p", "i", ".", "p", "h", "p", "?", "a", "c", "t",
          "i", "o", "n", "=", "s", "h", "o", "r", "t", "u", "r", "l", "&", "u", "r", "l",
          "=">>,
        <<>>)

vgd_req(url) ==
    request_get(url, "Get",
        <<"h", "t", "t", "p", ":", "/", "/", "v", ".", "g", "d", "/", "c", "r", "e", "a",
          "t", "e", ".", "p", "h", "p", "?", "f", "o", "r", "m", "a", "t", "=", "s", "i",
          "m", "p", "l", "e", "&", "u", "r", "l", "=">>,
        <<>>)

bambz_req(url) ==
    request_body(url, "Post",
        <<"h", "t", "t", "p", "s", ":", "/", "/", "b", "a", "m", ".", "b", "z", "/", "a",
          "p", "i", "/", "s", "h", "o", "r", "t">>,
        <<"t", "a", "r", "g", "e", "t", "=">>, "FormUrlEncoded")

sirbz_req(url) ==
    request_body(url, "Post",
        <<"h", "t", "t", "p", ":", "/", "/", "s", "i", "r", "b", "z", ".", "c", "o", "m",
          "/", "a", "p", "i", "/", "s", "h", "o", "r", "t", "e", "n", "_", "u", "r", "l">>,
        <<"u", "r", "l", "=">>, "FormUrlEncoded")

tinyph_req(url) ==
    request_body(url, "Post",
        <<"h", "t", "t", "p", ":", "/", "/", "t", "i", "n", "y", ".", "p", "h", "/", "a",
          "p", "i", "/", "u", "r", "l", "/", "c", "r", "e", "a", "t", "e">>,
        <<"u", "r", "l", "=">>, "FormUrlEncoded")

urlshortenerio_req(url) ==
    request_body(url, "Post",
        <<"h", "t", "t", "p", ":", "/", "/", "u", "r", "l", "-", "s", "h", "o", "r", "t",
          "e", "n", "e", "r", ".", "i", "o", "/", "s", "h", "o", "r", "t", "e", "n">>,
        <<"u", "r", "l", "_", "p", "a", "r", "a", "m", "=">>, "FormUrlEncoded")

biturl_req(url) ==
    request_body(url, "Post",
        <<"h", "t", "t", "p", "s", ":", "/", "/", "a", "p", "i", ".", "b", "i", "t", "u",
          "r", "l", ".", "t", "o", "p", "/", "s", "h", "o", "r", "t">>,
        <<"u", "r", "l", "=">>, "FormUrlEncoded")

\* fn bitly_req
bitly_req(url, key) ==
    [ url |-> <<"h", "t", "t", "p", "s", ":", "/", "/", "a", "p", "i", "-", "s",
                      "s", "l", ".", "b", "i", "t", "l", "y", ".", "c", "o", "m", "/",
                      "v", "3", "/", "s", "h", "o", "r", "t", "e", "n", "?", "a", "c",
                      "c", "e", "s", "s", "_", "t", "o", "k", "e", "n", "=">>
              \o key \o <<"&", "l", "o", "n", "g", "U", "r", "l", "=">>
              \o byte_serialize(url) \o <<"&", "f", "o", "r", "m", "a", "t", "=", "t", "x", "t">>,
      body |-> None,
      content_type |-> None,
      user_agent |-> None,
      headers |-> None,
      method |-> "Get" ]

\* fn googl_req
googl_req(url, key) ==
    [ url |-> <<"h", "t", "t", "p", "s", ":", "/", "/", "w", "w", "w", ".", "g",
                      "o", "o", "g", "l", "e", "a", "p", "i", "s", ".", "c", "o", "m",
                      "/", "u", "r", "l", "s", "h", "o", "r", "t", "e", "n", "e", "r",
                      "/", "v", "1", "/", "u", "r", "l", "?", "k", "e", "y", "=">>
              \o key,
      body |-> Some(<<"{", "\"", "l", "o", "n", "g", "U", "r", "l", "\"", ":", " ", "\"">>
                    \o url \o <<"\"", "}">>),
      content_type |-> Some("Json"),
      user_agent |-> None,
      headers |-> None,
      method |-> "Post" ]

\* fn hmmrs_req
hmmrs_req(url) ==
    [ url |-> <<"h", "t", "t", "p", ":", "/", "h", "m", "m", ".", "r", "s", "/",
                      "x", "/", "s", "h", "o", "r", "t", "e", "n">>,
      body |-> Some(<<"{", "\"", "u", "r", "l", "\"", ":", " ", "\"">> \o url \o <<"\"", "}">>),
      content_type |-> Some("Json"),
      user_agent |-> Some(FAKE_USER_AGENT),
      headers |-> None,
      method |-> "Post" ]

\* the bytes HeaderValue::from_str refuses among those the model uses:
\* the control characters other than the tab
ControlChars == {"\n", "\r"}

\* str::parse::<HeaderValue>() is Ok
is_header_value(s) == \A k \in 1..Len(s) : s[k] \notin ControlChars

\* the builder did not return: Result::unwrap panicked
Panic == [panic |-> TRUE]

\* fn kutt_req
kutt_req(url, api_key, host) ==
    IF ~is_header_value(api_key)
    THEN Panic                                      \* api_key.parse().unwrap()
    ELSE [ url |-> unwrap_or(host, <<"h", "t", "t", "p", "s", ":", "/", "/", "k", "u", "t", "t", ".",
                      "i", "t">>)
                   \o <<"/", "a", "p", "i", "/", "u", "r", "l", "/", "s", "u", "b", "m",
                      "i", "t">>,
           body |-> Some(<<"{", "\"", "t", "a", "r", "g", "e", "t", "\"", ":", " ", "\"">>
                         \o url \o <<"\"", "}">>),
           content_type |-> Some("Json"),
           user_agent |-> None,
           headers |-> Some(<<[name |-> <<"X", "-", "A", "P", "I", "-", "K", "e", "y">>,
                               value |-> api_key]>>),
           method |-> "Post" ]

\* pub fn request
request(url, provider) ==
    CASE provider.tag = "Abv8" -> abv8_req(url)
      [] provider.tag = "BamBz" -> bambz_req(url)
      [] provider.tag = "BitLy" -> bitly_req(url, provider.token)
      [] provider.tag = "BitUrl" -> biturl_req(url)
      [] provider.tag = "Bmeo" -> bmeo_req(url)
      [] provider.tag = "FifoCc" -> fifocc_req(url)
      [] provider.tag = "GooGl" -> googl_req(url, provider.api_key)
      [] provider.tag = "HmmRs" -> hmmrs_req(url)
      [] provider.tag = "HecSu" -> hecsu_req(url)
      [] provider.tag = "IsGd" -> isgd_req(url)
      [] provider.tag = "Kutt" -> kutt_req(url, provider.api_key, provider.host)
      [] provider.tag = "NowLinks" -> nowlinks_req(url)
      [] provider.tag = "PhxCoIn" -> phxcoin_req(url)
      [] provider.tag = "PsbeCo" -> psbeco_req(url)
      [] provider.tag = "SCoop" -> scoop_req(url)
      [] provider.tag = "SirBz" -> sirbz_req(url)
      [] provider.tag = "Rlu" -> rlu_req(url)
      [] provider.tag = "TinyUrl" -> tinyurl_req(url)
      [] provider.tag = "TinyPh" -> tinyph_req(url)
      [] provider.tag = "TnyIm" -> tnyim_req(url)
      [] provider.tag = "UrlShortenerIo" -> urlshortenerio_req(url)
      [] provider.tag = "VGd" -> vgd_req(url)

(***************************************************************************)
(* The HTTP executor, as generate sees it.                                 *)
(***************************************************************************)
execute_Retry(req) == <<req, req>>

\* Request::execute: one builder, one send(); the requests put on the wire
execute(req) == <<req>>

\* the executor could not produce a response
NoResponse == [conn |-> FALSE, status |-> 0, read |-> "none", body |-> <<>>]

\* a response with a status line; read is what read_to_string does on its
\* body: "ok" (body holds the text) or the kind of the io::Error it returns
Response(status, read, body) == [conn |-> TRUE, status |-> status, read |-> read, body |-> body]

\* StatusCode::is_success
is_success(status) == status >= 200 /\ status < 300

\* ok_or_else(|| Error::new(ErrorKind::Other, "Decode error"))
decode_error(r) == IF r.ok THEN r ELSE Err("Other")

generate_ParseEmpty(provider, response) ==
    IF response.conn /\ is_success(response.status)
    THEN IF response.read # "ok"
         THEN Err(response.read)
         ELSE decode_error(parse(response.body, provider))
    ELSE Err("ConnectionAborted")

generate_NoStatusCheck(provider, response) ==
    IF response.conn
    THEN IF response.read # "ok"
         THEN Err(response.read)
         ELSE IF Len(response.body) > 0
              THEN decode_error(parse(response.body, provider))
              ELSE Err("ConnectionAborted")
    ELSE Err("ConnectionAborted")

\* UrlShortener::generate, as a function of what the executor answers
generate(provider, response) ==
    IF response.conn /\ is_success(response.status)
    THEN IF response.read # "ok"
         THEN Err(response.read)                               \* try!
         ELSE IF Len(response.body) > 0
              THEN decode_error(parse(response.body, provider))
              ELSE Err("ConnectionAborted")
    ELSE Err("ConnectionAborted")

(***************************************************************************)
(* try_generate's pieces.                                                  *)
(***************************************************************************)
chosen_DefaultWhenEmpty(use) == IF use.some /\ use.v # <<>> THEN use.v ELSE PROVIDERS

\* let providers = use_providers.unwrap_or(providers::PROVIDERS)
chosen(use) == unwrap_or(use, PROVIDERS)

element_Reversed(list, n) == list[Len(list) - n]

\* the element the for loop visits after n elements were consumed
element(list, n) == list[n + 1]

returns_now_OnDecodeError(r) == r.ok \/ r.kind = "Other"

\* if let Ok(s) = res { return Ok(s) }
returns_now(r) == r.ok

warn_Silent(log) == log

\* warn!("Failed to get short link from service: {}", ..)
warn(log) == Append(log, "warn")

\* error!("Failed to get short link from any service")
error(log) == Append(log, "error")

exhausted_ConnectionAborted == Err("ConnectionAborted")

\* Err(Error::new(ErrorKind::Other, "Failed to get short link from any service"))
exhausted == Err("Other")

(***************************************************************************)
(* Inputs.                                                                 *)
(***************************************************************************)
RECURSIVE Concats(_, _)
\* the concatenations of at most n elements of pieces
Concats(pieces, n) ==
    IF n = 0 THEN {<<>>}
    ELSE LET shorter == Concats(pieces, n - 1)
         IN  shorter \cup { a \o b : a \in shorter, b \in pieces }

XmlTags == {"HecSu", "PsbeCo", "TnyIm"}
MarkerTags == XmlTags \cup {"TinyUrl"}
JsonTags == {"BamBz", "Bmeo", "FifoCc", "GooGl", "HmmRs", "SirBz", "TinyPh", "BitUrl"}

\* the opening and closing markers tabulated for the marker extractors
OpenMarker(p) ==
    CASE p.tag = "HecSu" -> <<"<", "s", "h", "o", "r", "t", ">">>
      [] p.tag = "PsbeCo" -> <<"<", "S", "h", "o", "r", "t", "U", "r", "l", ">">>
      [] p.tag = "TnyIm" -> <<"<", "s", "h", "o", "r", "t", "u", "r", "l", ">">>
      [] p.tag = "TinyUrl" -> TINYURL_OPEN

CloseMarker(p) ==
    CASE p.tag = "HecSu" -> <<"<", "/", "s", "h", "o", "r", "t", ">">>
      [] p.tag = "PsbeCo" -> <<"<", "/", "S", "h", "o", "r", "t", "U", "r", "l", ">">>
      [] p.tag = "TnyIm" -> <<"<", "/", "s", "h", "o", "r", "t", "u", "r", "l", ">">>
      [] p.tag = "TinyUrl" -> TINYURL_CLOSE

\* the key and prefix tabulated for the JSON-tag extractors
JsonKey(p) ==
    CASE p.tag = "BamBz" -> <<"u", "r", "l">>
      [] p.tag \in {"Bmeo", "BitUrl"} -> <<"s", "h", "o", "r", "t">>
      [] p.tag = "FifoCc" -> <<"s", "h", "o", "r", "t", "n", "e", "r">>
      [] p.tag = "GooGl" -> <<"i", "d">>
      [] p.tag \in {"HmmRs", "Kutt"} -> <<"s", "h", "o", "r", "t", "U", "r", "l">>
      [] p.tag = "SirBz" -> <<"s", "h", "o", "r", "t", "_", "l", "i", "n", "k">>
      [] p.tag = "TinyPh" -> <<"h", "a", "s", "h">>

JsonPrefix(p) ==
    CASE p.tag = "FifoCc" -> PREFIX_fifocc
      [] p.tag = "TinyPh" -> PREFIX_tinyph
      [] OTHER -> <<>>

Quoted(s) == <<"\"">> \o s \o <<"\"">>

\* the response text {"K":"Y"}
JsonBody(key, y) == <<"{">> \o Quoted(key) \o <<":">> \o Quoted(y) \o <<"}">>

\* the captured values tried: letters, backslashes, commas and quotes
YValues == Concats({<<"a">>, <<"\\">>, <<",">>, <<"\"">>}, MaxPieces)

\* the response texts handed to parse by the harness
FnBodies(p) ==
    IF p.tag \in MarkerTags
    THEN Concats({OpenMarker(p), CloseMarker(p), <<"X">>}, MaxPieces)
    ELSE IF p.tag \in JsonTags \cup {"Kutt"}
    THEN { JsonBody(JsonKey(p), y) : y \in YValues }
         \cup Concats({<<"\"">>, JsonKey(p), <<":">>, <<"a">>}, MaxPieces)
    ELSE Concats({<<"X">>, <<"/">>}, MaxPieces)

AllProviders ==
    { P(t) : t \in {"Abv8", "BamBz", "BitUrl", "Bmeo", "FifoCc", "HmmRs", "HecSu", "IsGd",
                    "NowLinks", "PhxCoIn", "PsbeCo", "SCoop", "SirBz", "Rlu", "TinyUrl",
                    "TinyPh", "TnyIm", "UrlShortenerIo", "VGd"} }
    \cup { BitLy(<<"K">>), GooGl(<<"K">>), Kutt(<<"K">>, None) }

\* the long URLs handed to request: "https://x", and the short texts made
\* of a letter and the characters that mean something in a URL
FnUrls ==
    { <<"h", "t", "t", "p", "s", ":", "/", "/", "x">> }
    \cup Concats({<<"a">>, <<"&">>, <<"=">>, <<"#">>, <<"?">>, <<"/">>, <<":">>, <<" ">>,
                  <<"%">>}, MaxUrlLen)

\* the api keys tried: plain, with a line feed, with a space and a tab
ApiKeys == { <<"K">>, <<"a", "\n", "b">>, <<"a", " ", "\t">> }

\* the Kutt hosts handed to request
RequestHosts ==
    { None, Some(<<"h", "t", "t", "p", "s", ":", "/", "/", "e", "x", "a", "m", "p", "l", "e",
              ".", "c", "o", "m">>),
      Some(<<"h">>), Some(<<>>) }

\* the providers handed to request
RequestProviders ==
    { p \in AllProviders : p.tag # "Kutt" }
    \cup { Kutt(k, h) : k \in ApiKeys, h \in RequestHosts }

\* the providers handed to to_name
NameProviders ==
    { p \in AllProviders : p.tag # "Kutt" }
    \cup { Kutt(<<"K">>, None) }
    \cup { Kutt(<<"K">>, Some(h)) : h \in Concats({<<"h">>, <<"/">>, <<"/", "/">>, <<":">>}, MaxPieces) }

\* a response text the provider's service would answer with
GoodBody(p) ==
    IF p.tag \in MarkerTags THEN OpenMarker(p) \o <<"X">> \o CloseMarker(p)
    ELSE IF p.tag \in JsonTags \cup {"Kutt"} THEN JsonBody(JsonKey(p), <<"X">>)
    ELSE <<"X">>

Statuses == {200, 404, 500}
ReadErrors == {"InvalidData", "TimedOut"}

\* what the executor may answer to a request for provider p
Responses(p) ==
    {NoResponse}
    \cup { Response(s, "ok", b) : s \in Statuses, b \in {<<>>, <<"X">>, GoodBody(p)} }
    \cup { Response(s, e, <<>>) : s \in Statuses, e \in ReadErrors }

LongUrls == { <<"h", "t", "t", "p", "s", ":", "/", "/", "x">>,
              <<"h", "t", "t", "p", ":", "/", "/", "y", "?", "a", "=", "b">> }

\* the providers explicit lists are made of
ListPool == { P("IsGd"), P("TinyPh"), P("HecSu"), GooGl(<<"K">>) }

RECURSIVE Lists(_)
Lists(n) ==
    IF n = 0 THEN {<<>>}
    ELSE LET shorter == Lists(n - 1)
         IN  shorter \cup { Append(l, p) : l \in shorter, p \in ListPool }

\* the use_providers arguments tried
UseProviders == {None} \cup { Some(l) : l \in Lists(MaxList) }

(***************************************************************************)
(* The dispatch specification: calls of generate and try_generate.         *)
(***************************************************************************)
NoResult == [ok |-> FALSE, val |-> <<>>, kind |-> "nothing"]
NoProvider == [tag |-> "none"]
NoRequest == [none |-> TRUE]

DispatchIdle ==
    /\ pc = "idle"
    /\ mode = "none"
    /\ long_url = <<>>
    /\ use_providers = None
    /\ providers = <<>>
    /\ idx = 0
    /\ sent = <<>>
    /\ resp = NoResponse
    /\ gen_provider = NoProvider
    /\ gen_res = NoResult
    /\ ret = NoResult
    /\ logged = <<>>

FnOff ==
    /\ fnPhase = "off"
    /\ fnProvider = P("IsGd")
    /\ fnBody = <<>>
    /\ fnResult = NoResult
    /\ fnUrl = <<>>
    /\ fnRequest = NoRequest
    /\ fnName = <<>>

Init == DispatchIdle /\ FnOff

\* a caller calls generate(url, provider); the executor answers response
CallGenerate(u, p, response) ==
    /\ pc = "idle"
    /\ mode' = "generate"
    /\ long_url' = u
    /\ use_providers' = None
    /\ providers' = <<>>
    /\ idx' = 0
    /\ sent' = execute(request(u, p))
    /\ resp' = response
    /\ gen_provider' = p
    /\ gen_res' = generate(p, response)
    /\ ret' = generate(p, response)
    /\ logged' = <<>>
    /\ pc' = "done"
    /\ UNCHANGED fnVars

\* a caller calls try_generate(url, use): up to the head of the for loop
CallTryGenerate(u, use) ==
    /\ pc = "idle"
    /\ mode' = "try_generate"
    /\ long_url' = u
    /\ use_providers' = use
    /\ providers' = chosen(use)
    /\ idx' = 0
    /\ sent' = <<>>
    /\ resp' = NoResponse
    /\ gen_provider' = NoProvider
    /\ gen_res' = NoResult
    /\ ret' = NoResult
    /\ logged' = <<>>
    /\ pc' = "loop"
    /\ UNCHANGED fnVars

\* one iteration of the for loop: generate for the next provider, then
\* return its short URL or warn and go on
ForStep(response) ==
    /\ pc = "loop"
    /\ idx < Len(providers)
    /\ LET provider == element(providers, idx)
           r == generate(provider, response)
       IN  /\ sent' = sent \o execute(request(long_url, provider))
           /\ resp' = response
           /\ gen_provider' = provider
           /\ gen_res' = r
           /\ idx' = idx + 1
           /\ IF returns_now(r)
              THEN /\ ret' = r
                   /\ pc' = "done"
                   /\ logged' = logged
              ELSE /\ ret' = ret
                   /\ pc' = "loop"
                   /\ logged' = warn(logged)
    /\ UNCHANGED <<mode, long_url, use_providers, providers>>
    /\ UNCHANGED fnVars

\* the for loop is over: error!, and the final Err
ForExhausted ==
    /\ pc = "loop"
    /\ idx = Len(providers)
    /\ logged' = error(logged)
    /\ ret' = exhausted
    /\ pc' = "done"
    /\ UNCHANGED <<mode, long_url, use_providers, providers, idx, sent, resp, gen_provider,
                   gen_res>>
    /\ UNCHANGED fnVars

\* the caller has its value; the client is ready for the next call
Return ==
    /\ pc = "done"
    /\ pc' = "idle"
    /\ mode' = "none"
    /\ long_url' = <<>>
    /\ use_providers' = None
    /\ providers' = <<>>
    /\ idx' = 0
    /\ sent' = <<>>
    /\ resp' = NoResponse
    /\ gen_provider' = NoProvider
    /\ gen_res' = NoResult
    /\ ret' = NoResult
    /\ logged' = <<>>
    /\ UNCHANGED fnVars

GenerateCalls == \E u \in LongUrls, p \in AllProviders : \E response \in Responses(p) :
                    CallGenerate(u, p, response)

TryGenerateCalls == \E u \in LongUrls, use \in UseProviders : CallTryGenerate(u, use)

ForSteps == \E response \in Responses(element(providers, idx)) : ForStep(response)

Next ==
    \/ GenerateCalls
    \/ TryGenerateCalls
    \/ (pc = "loop" /\ idx < Len(providers) /\ ForSteps)
    \/ ForExhausted
    \/ Return

Spec == Init /\ [][Next]_vars

\* the executor answers within its timeout and the caller keeps running
FairSpec == Spec /\ WF_vars(pc = "loop" /\ idx < Len(providers) /\ ForSteps) /\ WF_vars(ForExhausted)

(***************************************************************************)
(* The parser specification: parse applied to bounded response texts.      *)
(***************************************************************************)
FnInit ==
    /\ DispatchIdle
    /\ fnResult = NoResult
    /\ fnRequest = NoRequest
    /\ fnName = <<>>
    /\ \/ /\ fnPhase = "input"
          /\ fnProvider \in AllProviders
          /\ fnBody \in FnBodies(fnProvider)
          /\ fnUrl = <<>>
       \/ /\ fnPhase = "request"
          /\ fnProvider \in RequestProviders
          /\ fnBody = <<>>
          /\ fnUrl \in FnUrls
       \/ /\ fnPhase = "name"
          /\ fnProvider \in NameProviders
          /\ fnBody = <<>>
          /\ fnUrl = <<>>

ApplyParse ==
    /\ fnPhase = "input"
    /\ fnResult' = parse(fnBody, fnProvider)
    /\ fnPhase' = "done"
    /\ UNCHANGED <<fnProvider, fnBody, fnUrl, fnRequest, fnName>>
    /\ UNCHANGED dispatchVars

\* request(fnUrl, fnProvider); a panic leaves the caller without a request
ApplyRequest ==
    /\ fnPhase = "request"
    /\ fnRequest' = request(fnUrl, fnProvider)
    /\ fnPhase' = "requested"
    /\ UNCHANGED <<fnProvider, fnBody, fnResult, fnUrl, fnName>>
    /\ UNCHANGED dispatchVars

\* fnProvider.to_name()
ApplyToName ==
    /\ fnPhase = "name"
    /\ fnName' = to_name(fnProvider)
    /\ fnPhase' = "named"
    /\ UNCHANGED <<fnProvider, fnBody, fnResult, fnUrl, fnRequest>>
    /\ UNCHANGED dispatchVars

FnNext == ApplyParse \/ ApplyRequest \/ ApplyToName

FnSpec == FnInit /\ [][FnNext]_vars

(***************************************************************************)
(* Properties.                                                             *)
(***************************************************************************)
\* the sequence try_generate was asked to go through
Supplied == IF use_providers.some THEN use_providers.v ELSE PROVIDERS

\* a generate has run in the current call; its provider
Attempted == mode # "none" /\ Len(sent) > 0
LastProvider == gen_provider

\* the two error kinds of the specification, as std::io::ErrorKind values
ConnectionKind == "ConnectionAborted"
DeserializeKind == "Other"

\* C1: try_generate contacts the providers of the supplied sequence (the
\* default list when none is passed) in order, one per step, from the first
\* up to the first one whose generate succeeds; it returns that provider's
\* short URL, and once it has returned nothing more is sent.
C1_SequentialUntilFirstSuccess ==
    /\ [](mode = "try_generate" =>
            /\ Len(sent) <= Len(Supplied)
            /\ \A k \in 1..Len(sent) : sent[k] = request(long_url, Supplied[k])
            /\ (pc = "loop" /\ Len(sent) > 0) => ~gen_res.ok
            /\ (pc = "done" /\ ret.ok) => (gen_res.ok /\ ret = gen_res
                                           /\ ret = generate(Supplied[Len(sent)], resp)))
    /\ [][(mode = "try_generate" /\ pc = "loop") => Len(sent') <= Len(sent) + 1]_vars
    /\ [][pc = "done" => (pc' = "idle" /\ sent' = <<>>)]_vars

C1_Witness ==
    /\ mode = "try_generate" /\ pc = "done" /\ ret.ok
    /\ Len(sent) = 3 /\ Len(Supplied) > 3

\* C2 (as claimed): when every provider fails, the error try_generate
\* returns is of the Connection kind, not of the kind of a decode failure.
C2_ExhaustedIsConnection ==
    (mode = "try_generate" /\ pc = "done" /\ ~ret.ok) =>
        (ret.kind = ConnectionKind /\ ret.kind # DeserializeKind)

\* C2 (amended): when every provider fails, try_generate returns after
\* exactly one attempt per provider, and the error it returns is of kind
\* Other, the kind of a decode failure, whatever the last failure was.
C2_ExhaustedIsOther ==
    /\ []((mode = "try_generate" /\ pc = "done" /\ ~ret.ok) =>
            /\ ret = Err("Other")
            /\ ret.kind = DeserializeKind
            /\ Len(sent) = Len(Supplied)
            /\ \A k \in 1..Len(sent) : sent[k] = request(long_url, Supplied[k]))
    /\ ((mode = "try_generate" /\ pc = "loop") ~> (pc = "done"))

C2_Witness ==
    /\ mode = "try_generate" /\ pc = "done" /\ ~ret.ok
    /\ Len(sent) = 2 /\ gen_res.kind = ConnectionKind

\* C3: in try_generate a failed attempt, of whatever kind, is followed by
\* the next provider: while an attempt has failed try_generate has either
\* not returned yet, with the next position to try, or has gone through the
\* whole sequence.
C3_FailureKindIndifferent ==
    (mode = "try_generate" /\ Len(sent) > 0 /\ ~gen_res.ok) =>
        /\ gen_res.kind \in {"ConnectionAborted", "Other"} \cup ReadErrors
        /\ idx = Len(sent)
        /\ pc = "loop" \/ (pc = "done" /\ idx = Len(providers) /\ ~ret.ok)
        /\ \A k \in 1..Len(sent) : sent[k] = request(long_url, providers[k])

C3_Witness ==
    /\ mode = "try_generate" /\ pc = "loop"
    /\ gen_res.kind = "InvalidData" /\ idx = 2 /\ idx < Len(providers)

\* C4 (as claimed): generate returns the Connection error when the executor
\* fails or the body cannot be read as text, the result of parse(body,
\* provider) for the text it has read (the short URL, or the Deserialize
\* error), and no error of any other kind.
C4_OnlyConnectionOrParse ==
    Attempted =>
        /\ ~resp.conn => gen_res = Err(ConnectionKind)
        /\ (resp.conn /\ is_success(resp.status) /\ resp.read # "ok") =>
               gen_res = Err(ConnectionKind)
        /\ (resp.conn /\ is_success(resp.status) /\ resp.read = "ok" /\ resp.body # <<>>) =>
               gen_res = (IF parse(resp.body, LastProvider).ok
                          THEN parse(resp.body, LastProvider)
                          ELSE Err(DeserializeKind))
        /\ gen_res.ok \/ gen_res.kind \in {ConnectionKind, DeserializeKind}

\* C5 (as claimed): a response with a 4xx/5xx status and a non-empty body
\* has its body handed to the parser, and generate's result is the
\* parser's, as for a 2xx response with that body.
C5_StatusNotInspected ==
    (Attempted /\ resp.conn /\ ~is_success(resp.status) /\ resp.read = "ok" /\ resp.body # <<>>) =>
        /\ gen_res = generate(LastProvider, Response(200, "ok", resp.body))
        /\ gen_res = decode_error(parse(resp.body, LastProvider))

\* C5 (amended): generate branches on the status code: a response whose
\* status is not 2xx gives the Connection error whatever its body, and a
\* 2xx response with a readable non-empty body gives the parser's result.
C5_StatusGatesParser ==
    Attempted =>
        /\ (resp.conn /\ ~is_success(resp.status)) => gen_res = Err(ConnectionKind)
        /\ (resp.conn /\ is_success(resp.status) /\ resp.read = "ok" /\ resp.body # <<>>) =>
               gen_res = decode_error(parse(resp.body, LastProvider))

C5_Witness ==
    /\ Attempted /\ resp.conn /\ resp.status = 404 /\ resp.read = "ok"
    /\ resp.body # <<>> /\ parse(resp.body, LastProvider).ok
    /\ gen_res = Err(ConnectionKind)

\* C6 (as claimed): try_generate with an explicit empty list returns the
\* Connection error and performs no HTTP call.
C6_EmptyListIsConnection ==
    (mode = "try_generate" /\ use_providers = Some(<<>>)) =>
        /\ sent = <<>>
        /\ pc = "done" => ret = Err(ConnectionKind)

\* C6 (amended): try_generate with an explicit empty list performs no HTTP
\* call, does not fall back to the default list, and returns the error of
\* kind Other.
C6_EmptyListIsOther ==
    (mode = "try_generate" /\ use_providers = Some(<<>>)) =>
        /\ sent = <<>>
        /\ providers = <<>>
        /\ pc = "done" => ret = Err("Other")

C6_Witness ==
    /\ mode = "try_generate" /\ use_providers = Some(<<>>)
    /\ pc = "done" /\ ~ret.ok /\ sent = <<>>

\* C7: every call of generate executes exactly one HTTP request whatever
\* its outcome, so a try_generate that has made idx attempts has sent idx
\* requests, at most one per provider of its sequence.
C7_OneRequestPerGenerate ==
    /\ (mode = "generate" /\ pc = "done") => Len(sent) = 1
    /\ mode = "try_generate" => (Len(sent) = idx /\ Len(sent) <= Len(providers))

C7_Witness ==
    /\ mode = "generate" /\ pc = "done" /\ Len(sent) = 1
    /\ ~resp.conn /\ gen_res = Err(ConnectionKind)

\* the default priority list as the specification tabulates it
CanonicalOrder ==
    << [tag |-> "IsGd"], [tag |-> "VGd"], [tag |-> "BamBz"], [tag |-> "TinyPh"],
       [tag |-> "FifoCc"], [tag |-> "SCoop"], [tag |-> "Bmeo"], [tag |-> "UrlShortenerIo"],
       [tag |-> "HmmRs"], [tag |-> "BitUrl"], [tag |-> "TnyIm"], [tag |-> "SirBz"],
       [tag |-> "Rlu"], [tag |-> "HecSu"], [tag |-> "Abv8"], [tag |-> "TinyUrl"],
       [tag |-> "PsbeCo"], [tag |-> "NowLinks"] >>

\* C8: PROVIDERS holds no auth-bearing variant, no variant twice, and is
\* the canonical sequence; every try_generate without an explicit list,
\* after any earlier calls, goes through that same sequence.
C8_DefaultListCanonical ==
    /\ PROVIDERS = CanonicalOrder
    /\ \A k \in 1..Len(PROVIDERS) : PROVIDERS[k].tag \notin AuthTags
    /\ \A j, k \in 1..Len(PROVIDERS) : j # k => PROVIDERS[j].tag # PROVIDERS[k].tag
    /\ (mode = "try_generate" /\ ~use_providers.some) =>
           /\ providers = CanonicalOrder
           /\ \A k \in 1..Len(sent) : sent[k] = request(long_url, CanonicalOrder[k])

C8_Witness ==
    /\ mode = "try_generate" /\ ~use_providers.some /\ pc = "done"
    /\ ret.ok /\ Len(sent) = 18 /\ LastProvider = [tag |-> "NowLinks"]

\* the text after the first occurrence of pat in s
AfterFirst(s, pat) == Drop(s, Find(s, pat) + Len(pat) - 1)

\* C9 (as claimed): a marker extractor returns X for <T>X</T>, and the
\* Deserialize error for the empty body, for a body without the opening
\* marker and for a body whose opening marker is not followed by the
\* closing marker.
C9_MarkerAbsentIsDeserialize ==
    (fnPhase = "done" /\ fnProvider.tag \in MarkerTags) =>
        LET open == OpenMarker(fnProvider)
            close == CloseMarker(fnProvider)
        IN  /\ fnBody = open \o <<"X">> \o close => fnResult = Ok(<<"X">>)
            /\ (\/ fnBody = <<>>
                \/ ~Contains(fnBody, open)
                \/ ~Contains(AfterFirst(fnBody, open), close)) => fnResult = Err("Deserialize")

\* Y with every backslash removed
StripBackslashes(y) == SelectSeq(y, LAMBDA c : c # "\\")

\* C10 (as claimed): for a JSON-tag parser with key K and prefix P, parse of
\* {"K":"Y"} is P followed by Y without its backslashes, for every Y, and
\* parse of a body without the literal "K" is the Deserialize error.
C10_JsonValueAnyY ==
    (fnPhase = "done" /\ fnProvider.tag \in JsonTags) =>
        /\ \A y \in YValues :
               fnBody = JsonBody(JsonKey(fnProvider), y) =>
                   fnResult = Ok(JsonPrefix(fnProvider) \o StripBackslashes(y))
        /\ ~Contains(fnBody, Quoted(JsonKey(fnProvider))) => fnResult = Err("Deserialize")

\* C10 (amended): the same, for every Y that holds neither a comma nor a
\* double quote.
C10_JsonValuePlainY ==
    (fnPhase = "done" /\ fnProvider.tag \in JsonTags) =>
        /\ \A y \in YValues :
               (/\ fnBody = JsonBody(JsonKey(fnProvider), y)
                /\ ~Contains(y, <<",">>)
                /\ ~Contains(y, <<"\"">>)) =>
                   fnResult = Ok(JsonPrefix(fnProvider) \o StripBackslashes(y))
        /\ ~Contains(fnBody, Quoted(JsonKey(fnProvider))) => fnResult = Err("Deserialize")

C10_Witness ==
    /\ fnPhase = "done" /\ fnProvider.tag = "FifoCc"
    /\ fnBody = JsonBody(JsonKey(fnProvider), <<"a", "\\", "a">>)
    /\ fnResult = Ok(PREFIX_fifocc \o <<"a", "a">>)

\* the request URL tabulated for the provider, for the encoded long URL
TemplateUrl(p, encoded) ==
    CASE p.tag = "Abv8" ->
            <<"h", "t", "t", "p", ":", "/", "/", "a", "b", "v", "8", ".", "m", "e", "/",
              "?", "u", "r", "l", "=">> \o encoded
      [] p.tag = "BamBz" ->
            <<"h", "t", "t", "p", "s", ":", "/", "/", "b", "a", "m", ".", "b", "z", "/",
              "a", "p", "i", "/", "s", "h", "o", "r", "t">>
      [] p.tag = "BitUrl" ->
            <<"h", "t", "t", "p", "s", ":", "/", "/", "a", "p", "i", ".", "b", "i", "t",
              "u", "r", "l", ".", "t", "o", "p", "/", "s", "h", "o", "r", "t">>
      [] p.tag = "Bmeo" ->
            <<"h", "t", "t", "p", ":", "/", "/", "b", "m", "e", "o", ".", "o", "r", "g",
              "/", "a", "p", "i", ".", "p", "h", "p", "?", "u", "r", "l", "=">> \o encoded
      [] p.tag = "FifoCc" ->
            <<"h", "t", "t", "p", "s", ":", "/", "/", "f", "i", "f", "o", ".", "c", "c",
              "/", "a", "p", "i", "/", "v", "2", "?", "u", "r", "l", "=">> \o encoded
      [] p.tag = "HecSu" ->
            <<"h", "t", "t", "p", "s", ":", "/", "/", "h", "e", "c", ".", "s", "u", "/",
              "a", "p", "i", "?", "u", "r", "l", "=">> \o encoded \o <<"&", "m", "e", "t", "h", "o", "d", "=", "x", "m", "l">>
      [] p.tag = "HmmRs" ->
            <<"h", "t", "t", "p", ":", "/", "/", "h", "m", "m", ".", "r", "s", "/", "x",
              "/", "s", "h", "o", "r", "t", "e", "n">>
      [] p.tag = "IsGd" ->
            <<"h", "t", "t", "p", "s", ":", "/", "/", "i", "s", ".", "g", "d", "/", "c",
              "r", "e", "a", "t", "e", ".", "p", "h", "p", "?", "f", "o", "r", "m", "a",
              "t", "=", "s", "i", "m", "p", "l", "e", "&", "u", "r", "l", "=">> \o encoded
      [] p.tag = "NowLinks" ->
            <<"h", "t", "t", "p", ":", "/", "/", "n", "o", "w", "l", "i", "n", "k", "s",
              ".", "n", "e", "t", "/", "a", "p", "i", "?", "u", "r", "l", "=">> \o encoded
      [] p.tag = "PhxCoIn" ->
            <<"h", "t", "t", "p", ":", "/", "/", "p", "h", "x", ".", "c", "o", ".", "i",
              "n", "/", "s", "h", "r", "i", "n", "k", ".", "a", "s", "p", "?", "u", "r",
              "l", "=">> \o encoded
      [] p.tag = "PsbeCo" ->
            <<"h", "t", "t", "p", ":", "/", "/", "p", "s", "b", "e", ".", "c", "o", "/",
              "A", "P", "I", ".", "a", "s", "m", "x", "/", "C", "r", "e", "a", "t", "e",
              "U", "r", "l", "?", "r", "e", "a", "l", "_", "u", "r", "l", "=">> \o encoded
      [] p.tag = "SCoop" ->
            <<"h", "t", "t", "p", ":", "/", "/", "s", ".", "c", "o", "o", "p", "/", "d",
              "e", "v", "a", "p", "i", ".", "p", "h", "p", "?", "a", "c", "t", "i", "o",
              "n", "=", "s", "h", "o", "r", "t", "u", "r", "l", "&", "u", "r", "l", "=">> \o encoded \o <<"&", "f", "o", "r", "m", "a", "t", "=", "R", "E", "T", "U", "R", "N">>
      [] p.tag = "SirBz" ->
            <<"h", "t", "t", "p", ":", "/", "/", "s", "i", "r", "b", "z", ".", "c", "o",
              "m", "/", "a", "p", "i", "/", "s", "h", "o", "r", "t", "e", "n", "_", "u",
              "r", "l">>
      [] p.tag = "Rlu" ->
            <<"h", "t", "t", "p", ":", "/", "/", "r", "l", "u", ".", "r", "u", "/", "i",
              "n", "d", "e", "x", ".", "s", "e", "m", "a", "?", "a", "=", "a", "p", "i",
              "&", "l", "i", "n", "k", "=">> \o encoded
      [] p.tag = "TinyUrl" ->
            <<"h", "t", "t", "p", ":", "/", "/", "t", "i", "n", "y", "u", "r", "l", ".",
              "c", "o", "m", "/", "c", "r", "e", "a", "t", "e", ".", "p", "h", "p", "?",
              "u", "r", "l", "=">> \o encoded
      [] p.tag = "TinyPh" ->
            <<"h", "t", "t", "p", ":", "/", "/", "t", "i", "n", "y", ".", "p", "h", "/",
              "a", "p", "i", "/", "u", "r", "l", "/", "c", "r", "e", "a", "t", "e">>
      [] p.tag = "TnyIm" ->
            <<"h", "t", "t", "p", ":", "/", "/", "t", "n", "y", ".", "i", "m", "/", "y",
              "o", "u", "r", "l", "s", "-", "a", "p", "i", ".", "p", "h", "p", "?", "a",
              "c", "t", "i", "o", "n", "=", "s", "h", "o", "r", "t", "u", "r", "l", "&",
              "u", "r", "l", "=">> \o encoded
      [] p.tag = "UrlShortenerIo" ->
            <<"h", "t", "t", "p", ":", "/", "/", "u", "r", "l", "-", "s", "h", "o", "r",
              "t", "e", "n", "e", "r", ".", "i", "o", "/", "s", "h", "o", "r", "t", "e",
              "n">>
      [] p.tag = "VGd" ->
            <<"h", "t", "t", "p", ":", "/", "/", "v", ".", "g", "d", "/", "c", "r", "e",
              "a", "t", "e", ".", "p", "h", "p", "?", "f", "o", "r", "m", "a", "t", "=",
              "s", "i", "m", "p", "l", "e", "&", "u", "r", "l", "=">> \o encoded
      [] p.tag = "BitLy" ->
            <<"h", "t", "t", "p", "s", ":", "/", "/", "a", "p", "i", "-", "s", "s", "l",
              ".", "b", "i", "t", "l", "y", ".", "c", "o", "m", "/", "v", "3", "/", "s",
              "h", "o", "r", "t", "e", "n", "?", "a", "c", "c", "e", "s", "s", "_", "t",
              "o", "k", "e", "n", "=">> \o p.token
            \o <<"&", "l", "o", "n", "g", "U", "r", "l", "=">> \o encoded \o <<"&", "f", "o", "r", "m", "a", "t", "=", "t", "x", "t">>
      [] p.tag = "GooGl" ->
            <<"h", "t", "t", "p", "s", ":", "/", "/", "w", "w", "w", ".", "g", "o", "o",
              "g", "l", "e", "a", "p", "i", "s", ".", "c", "o", "m", "/", "u", "r", "l",
              "s", "h", "o", "r", "t", "e", "n", "e", "r", "/", "v", "1", "/", "u", "r",
              "l", "?", "k", "e", "y", "=">> \o p.api_key
      [] p.tag = "Kutt" ->
            (IF p.host.some THEN p.host.v ELSE <<"h", "t", "t", "p", "s", ":", "/", "/", "k", "u", "t", "t", ".", "i", "t">>)
            \o <<"/", "a", "p", "i", "/", "u", "r", "l", "/", "s", "u", "b", "m", "i", "t">>

SchemeLetters ==
    { "a", "b", "c", "d", "e", "f", "g", "h", "i", "j", "k", "l", "m", "n", "o", "p", "q",
      "r", "s", "t", "u", "v", "w", "x", "y", "z" }

\* a scheme, "://" and a non-empty host
IsAbsoluteUrl(u) ==
    LET k == Find(u, <<":", "/", "/">>)
    IN  /\ k > 1
        /\ \A j \in 1..(k - 1) : u[j] \in SchemeLetters
        /\ Len(u) >= k + 3
        /\ u[k + 3] \notin {"/", "?", "#", ":"}

\* request has returned a request for the long URL "https://x" and a
\* provider whose host, when it has one, is itself an absolute URL
RequestedForX ==
    /\ fnPhase = "requested"
    /\ fnRequest # Panic
    /\ fnUrl = <<"h", "t", "t", "p", "s", ":", "/", "/", "x">>
    /\ (fnProvider.tag = "Kutt" /\ fnProvider.host.some) => IsAbsoluteUrl(fnProvider.host.v)

\* C11 (as claimed): for every provider the URL of request("https://x", p)
\* is an absolute URL, a scheme followed by "://" and a non-empty host, and
\* is the URL tabulated for the provider.
C11_UrlAbsoluteAsTabulated ==
    RequestedForX =>
        /\ IsAbsoluteUrl(fnRequest.url)
        /\ fnRequest.url =
               TemplateUrl(fnProvider, <<"h", "t", "t", "p", "s", "%", "3", "A", "%", "2", "F",
                                         "%", "2", "F", "x">>)

\* the providers tabulated with the GET method
GetTags ==
    { "Abv8", "BitLy", "Bmeo", "FifoCc", "HecSu", "IsGd", "NowLinks", "PhxCoIn", "PsbeCo",
      "SCoop", "Rlu", "TinyUrl", "TnyIm", "VGd" }

\* request has returned a request
Requested == fnPhase = "requested" /\ fnRequest # Panic

\* C12: the request built for any provider and long URL has a content type
\* exactly when it has a body; it is a GET without a body for the providers
\* tabulated as GET and a POST with a body for the others.
C12_ContentTypeIffBody ==
    Requested =>
        /\ fnRequest.content_type.some <=> fnRequest.body.some
        /\ fnProvider.tag \in GetTags =>
               (fnRequest.method = "Get" /\ fnRequest.body = None)
        /\ fnProvider.tag \notin GetTags =>
               (fnRequest.method = "Post" /\ fnRequest.body.some)

C12_Witness ==
    /\ Requested /\ fnProvider.tag = "BamBz" /\ fnUrl = <<"a", "&">>
    /\ fnRequest.method = "Post"
    /\ fnRequest.body = Some(<<"t", "a", "r", "g", "e", "t", "=", "a", "&">>)
    /\ fnRequest.content_type = Some("FormUrlEncoded")

\* the domain name tabulated for each provider without a host of its own
DomainName(p) ==
    CASE p.tag = "Abv8" -> <<"a", "b", "v", "8", ".", "m", "e">>
      [] p.tag = "BamBz" -> <<"b", "a", "m", ".", "b", "z">>
      [] p.tag = "BitLy" -> <<"b", "i", "t", "l", "y", ".", "c", "o", "m">>
      [] p.tag = "BitUrl" -> <<"b", "i", "t", "u", "r", "l", ".", "t", "o", "p">>
      [] p.tag = "Bmeo" -> <<"b", "m", "e", "o", ".", "o", "r", "g">>
      [] p.tag = "FifoCc" -> <<"f", "i", "f", "o", ".", "c", "c">>
      [] p.tag = "GooGl" -> <<"g", "o", "o", ".", "g", "l">>
      [] p.tag = "HmmRs" -> <<"h", "m", "m", ".", "r", "s">>
      [] p.tag = "HecSu" -> <<"h", "e", "c", ".", "s", "u">>
      [] p.tag = "IsGd" -> <<"i", "s", ".", "g", "d">>
      [] p.tag = "NowLinks" -> <<"n", "o", "w", "l", "i", "n", "k", "s", ".", "n", "e", "t">>
      [] p.tag = "PhxCoIn" -> <<"p", "h", "x", ".", "c", "o", ".", "i", "n">>
      [] p.tag = "PsbeCo" -> <<"p", "s", "b", "e", ".", "c", "o">>
      [] p.tag = "SCoop" -> <<"s", ".", "c", "o", "o", "p">>
      [] p.tag = "SirBz" -> <<"s", "i", "r", "b", "z", ".", "c", "o", "m">>
      [] p.tag = "Rlu" -> <<"r", "l", "u", ".", "r", "u">>
      [] p.tag = "TinyUrl" -> <<"t", "i", "n", "y", "u", "r", "l", ".", "c", "o", "m">>
      [] p.tag = "TinyPh" -> <<"t", "i", "n", "y", ".", "p", "h">>
      [] p.tag = "TnyIm" -> <<"t", "n", "y", ".", "i", "m">>
      [] p.tag = "UrlShortenerIo" -> <<"u", "r", "l", "-", "s", "h", "o", "r", "t", "e", "n", "e", "r", ".", "i", "o">>
      [] p.tag = "VGd" -> <<"v", ".", "g", "d">>

IsSuffix(t, s) == Len(t) <= Len(s) /\ SubSeq(s, Len(s) - Len(t) + 1, Len(s)) = t

\* the part of host after its last "//": the shortest t with "//" \o t a
\* suffix of host, all of host when it holds no "//"
AfterLastSlashes(host) ==
    LET tails == { n \in 0..Len(host) : IsSuffix(<<"/", "/">> \o Drop(host, Len(host) - n), host) }
    IN  IF tails = {} THEN host
        ELSE Drop(host, Len(host) - (CHOOSE n \in tails : \A m \in tails : n <= m))

ExpectedName(p) ==
    IF p.tag # "Kutt" THEN DomainName(p)
    ELSE IF p.host.some THEN AfterLastSlashes(p.host.v)
    ELSE <<"k", "u", "t", "t", ".", "i", "t">>

\* C13 (as claimed): to_name returns a non-empty string for every provider,
\* Kutt with any host included, for which it is the part of the host after
\* its last "//" ("kutt.it" without a host).
C13_NameNeverEmpty ==
    fnPhase = "named" => (fnName # <<>> /\ fnName = ExpectedName(fnProvider))

\* C13 (amended): to_name is total and returns the tabulated domain name, for
\* Kutt the part of the host after its last "//" ("kutt.it" without a host);
\* the name is empty exactly for Kutt with a host that is empty or ends
\* with "//".
C13_NameEmptyOnlyForBareHost ==
    fnPhase = "named" =>
        /\ fnName = ExpectedName(fnProvider)
        /\ fnName = <<>> <=>
               /\ fnProvider.tag = "Kutt"
               /\ fnProvider.host.some
               /\ (fnProvider.host.v = <<>> \/ IsSuffix(<<"/", "/">>, fnProvider.host.v))

C13_Witness ==
    /\ fnPhase = "named"
    /\ fnProvider.tag = "Kutt"
    /\ fnProvider.host = Some(<<"h", ":", "/", "/">>)
    /\ fnName = <<>>

\* C14 (as claimed): no call of generate or try_generate emits a log record,
\* whatever its attempts do.
C14_NoLogRecord == logged = <<>>

\* the records of a try_generate whose first n attempts have failed
Warnings(n) == [k \in 1..n |-> "warn"]

\* C14 (amended): generate emits no log record; try_generate emits one
\* warning per failed attempt, in order, and one error record after them when
\* it has exhausted its providers, and nothing else.
C14_LogsFailedAttempts ==
    /\ mode = "generate" => logged = <<>>
    /\ (mode = "try_generate" /\ pc = "loop") => logged = Warnings(idx)
    /\ (mode = "try_generate" /\ pc = "done" /\ ret.ok) => logged = Warnings(idx - 1)
    /\ (mode = "try_generate" /\ pc = "done" /\ ~ret.ok) =>
           logged = Warnings(Len(providers)) \o <<"error">>

C14_Witness ==
    /\ mode = "try_generate"
    /\ pc = "done"
    /\ Len(providers) = 2
    /\ ret = exhausted
    /\ logged = <<"warn", "warn", "error">>

\* the providers whose request URL carries the long URL in a query parameter
QueryTags == GetTags

\* the characters of a long URL that would change the query when left as is
ReservedChars == { "&", "=", "#", "?", "/", ":", " " }

\* the characters a long URL is made of here
UrlChars == { "a", "%" } \cup ReservedChars

\* the part of the request URL that stands where the long URL is interpolated
Interpolated(p, u) ==
    LET at == Find(TemplateUrl(p, <<"@">>), <<"@">>)
    IN  SubSeq(u, at, at + (Len(u) - Len(TemplateUrl(p, <<>>))) - 1)

RECURSIVE PercentDecode(_)
\* what a server reads back from a form-urlencoded query value
PercentDecode(e) ==
    IF e = <<>> THEN <<>>
    ELSE IF Head(e) = "+" THEN <<" ">> \o PercentDecode(Tail(e))
    ELSE IF Head(e) = "%"
         THEN LET cs == { c \in UrlChars \ {"a", " "} :
                            Len(e) >= 3 /\ HexOf(c) = <<e[2], e[3]>> }
              IN  IF cs = {} THEN <<"!">>
                  ELSE <<CHOOSE c \in cs : TRUE>> \o PercentDecode(Drop(e, 3))
    ELSE <<Head(e)>> \o PercentDecode(Tail(e))

\* C15: in the request URL of every provider that carries the long URL in a
\* query parameter, the long URL stands only in form-urlencoded form: the
\* URL is the provider's template around a text that holds none of the long
\* URL's reserved characters and that decodes back to the long URL, so the
\* template's own parameters are the only ones.
C15_LongUrlOnlyEncoded ==
    (Requested /\ fnProvider.tag \in QueryTags) =>
        LET enc == Interpolated(fnProvider, fnRequest.url)
        IN  /\ fnRequest.url = TemplateUrl(fnProvider, enc)
            /\ \A k \in 1..Len(enc) : enc[k] \notin ReservedChars
            /\ PercentDecode(enc) = fnUrl

C15_Witness ==
    /\ Requested
    /\ fnProvider.tag = "HecSu"
    /\ fnUrl = <<"&", " ">>
    /\ Interpolated(fnProvider, fnRequest.url) = <<"%", "2", "6", "+">>

\* C16 (as claimed): request returns a request for every provider and long
\* URL and never panics; for Kutt with any api_key it returns a request that
\* carries the header X-API-Key with that key.
C16_RequestTotal ==
    fnPhase = "requested" =>
        /\ fnRequest # Panic
        /\ fnProvider.tag = "Kutt" =>
               fnRequest.headers =
                   Some(<<[name |-> <<"X", "-", "A", "P", "I", "-", "K", "e", "y">>,
                           value |-> fnProvider.api_key]>>)

\* the executor answered and read_to_string read zero bytes
EmptyBodyRead == resp.conn /\ resp.read = "ok" /\ resp.body = <<>>

\* C17: when the response read has an empty body, generate returns the
\* connection error whatever the provider and the status, the parser's result
\* on the empty text notwithstanding; no short URL comes from an empty body.
C17_EmptyBodyIsConnection ==
    Attempted =>
        /\ EmptyBodyRead => gen_res = Err(ConnectionKind)
        /\ gen_res.ok => resp.body # <<>>

C17_Witness ==
    /\ Attempted
    /\ mode = "generate"
    /\ gen_provider.tag = "IsGd"
    /\ parse(<<>>, gen_provider) = Ok(<<>>)
    /\ resp = Response(200, "ok", <<>>)
    /\ gen_res = Err("ConnectionAborted")
    /\ ret = gen_res

====
